---- MODULE Spec2Model ----
(***************************************************************************)
(* Model of magewell_pro_convert.py: the MagewellSwitcher session (login,  *)
(* _check_auth, get_current_channel, get_ndi_sources, set_channel), the    *)
(* command-line dispatcher main() and the menu loop run_interactive_mode(). *)
(* The device is an opaque HTTP service: every request draws its answer    *)
(* from the set of answers a device (or the network) can give.             *)
(***************************************************************************)
EXTENDS Integers, Sequences, FiniteSets, TLC

\* ------------------------------------------------------------------ bounds
\* Longest "sources" array the device answers with.
MaxSources == 2

\* ------------------------------------------------------------ device side
\* A source dict of the "sources" array, reduced to its "ndi-name" entry.
SourceDicts == {[ndi_name |-> "camA"], [ndi_name |-> "camB"]}

\* source.get("ndi-name")
SourceName(source) == source.ndi_name

RECURSIVE SeqsUpTo(_, _)
SeqsUpTo(S, n) ==
    IF n = 0 THEN {<<>>}
    ELSE LET shorter == SeqsUpTo(S, n - 1)
         IN  shorter \cup {Append(s, x) : s \in {t \in shorter : Len(t) = n - 1}, x \in S}

\* What one HTTP GET can come back with:
\*   transport_error : session.get raises (unreachable device, reset, ...)
\*   bad_json        : the body is not JSON, response.json() raises
\*   non_object      : the body is JSON but not an object (array, number, null)
\*   object          : a JSON object, with or without "status" and "sources"
Failure(k) ==
    [kind |-> k, has_status |-> FALSE, status |-> 0,
     has_sources |-> FALSE, sources |-> <<>>]

Object(hasStatus, st, hasSources, srcs) ==
    [kind |-> "object", has_status |-> hasStatus, status |-> st,
     has_sources |-> hasSources, sources |-> srcs]

BrokenResponses == {Failure(k) : k \in {"transport_error", "bad_json", "non_object"}}

\* Answers to login, get-channel and set-channel (no "sources" member).
PlainResponses ==
    BrokenResponses
    \cup {Object(FALSE, 0, FALSE, <<>>)}
    \cup {Object(TRUE, st, FALSE, <<>>) : st \in {0, 1}}

\* Answers to get-ndi-sources.
SourcesResponses ==
    PlainResponses
    \cup {Object(TRUE, st, TRUE, s) : st \in {0, 1}, s \in SeqsUpTo(SourceDicts, MaxSources)}

\* -------------------------------------------------------- python values
PyNone == [kind |-> "None", bool |-> FALSE, list |-> <<>>]
PyBool(b) == [kind |-> "bool", bool |-> b, list |-> <<>>]
PyDict == [kind |-> "dict", bool |-> FALSE, list |-> <<>>]
PyList(s) == [kind |-> "list", bool |-> FALSE, list |-> s]
\* Not a value: the call left by an exception that nothing caught.
PyRaise == [kind |-> "exception", bool |-> FALSE, list |-> <<>>]

\* Python truth value, as used by "if channel:", "if sources:", "if not x".
\* The dict returned by get_current_channel always holds "status".
Truthy(v) ==
    CASE v.kind = "None" -> FALSE
      [] v.kind = "bool" -> v.bool
      [] v.kind = "dict" -> TRUE
      [] v.kind = "list" -> Len(v.list) > 0
      [] OTHER -> FALSE

\* ------------------------------------------------------ MagewellSwitcher
NoName == "-"

\* One GET as it leaves the session: the method parameter, the "name"
\* parameter, the value of self.authenticated when it is sent, whether it is
\* sent by login() called from _check_auth, and the answer it receives.
Request(method, name, auth, via, resp) ==
    [method |-> method, name |-> name, auth |-> auth, via |-> via, resp |-> resp]

\* The exception raised by the three statements of a try body
\* (session.get, response.json, data.get("status")), or "none".
Exc(resp) ==
    CASE resp.kind = "transport_error" -> "ConnectionError"
      [] resp.kind = "bad_json" -> "JSONDecodeError"
      [] resp.kind = "non_object" -> "AttributeError"
      [] OTHER -> "none"

\* data.get("status") == 0
StatusOk(data) == data.has_status /\ data.status = 0

CaughtOnlyTransport(e) == e = "ConnectionError"

\* "except Exception": every exception class the try body can raise.
Caught(e) == e \in {"ConnectionError", "JSONDecodeError", "AttributeError"}

Result(ret, auth, reqs) == [ret |-> ret, auth |-> auth, reqs |-> reqs]

loginRetry(auth, resp, via) ==
    LET req == Request("login", NoName, auth, via, resp)
    IN  IF Exc(resp) = "none" /\ StatusOk(resp)
        THEN Result(PyBool(TRUE), TRUE, <<req>>)
        ELSE Result(PyBool(FALSE), auth, <<req, req>>)

loginResets(auth, resp, via) ==
    LET req == Request("login", NoName, auth, via, resp)
    IN  IF Exc(resp) = "none" /\ StatusOk(resp)
        THEN Result(PyBool(TRUE), TRUE, <<req>>)
        ELSE Result(PyBool(FALSE), FALSE, <<req>>)

login(auth, resp, via) ==
    LET req == Request("login", NoName, auth, via, resp)
        e == Exc(resp)
    IN  IF e # "none"
        THEN Result(IF Caught(e) THEN PyBool(FALSE) ELSE PyRaise, auth, <<req>>)
        ELSE IF StatusOk(resp)
             THEN Result(PyBool(TRUE), TRUE, <<req>>)
             ELSE Result(PyBool(FALSE), auth, <<req>>)

_check_authSkipsLogin(auth, resp) == Result(PyBool(TRUE), auth, <<>>)

_check_authAlwaysLogin(auth, resp) == login(auth, resp, TRUE)

\* _check_auth: login only when the flag is not set.
_check_auth(auth, resp) ==
    IF ~auth THEN login(auth, resp, TRUE)
    ELSE Result(PyBool(TRUE), auth, <<>>)

\* The try/except block shared by the three data operations: one GET, then
\* onSuccess when the answer is an object with status 0, onFailure otherwise.
DataRequest(a, method, name, dresp, onSuccess, onFailure) ==
    LET req == Request(method, name, a.auth, FALSE, dresp)
        e == Exc(dresp)
        ret == IF e # "none" THEN (IF Caught(e) THEN onFailure ELSE PyRaise)
               ELSE IF StatusOk(dresp) THEN onSuccess ELSE onFailure
    IN  Result(ret, a.auth, a.reqs \o <<req>>)

get_current_channel(auth, lresp, dresp) ==
    LET a == _check_auth(auth, lresp)
    IN  IF a.ret.kind = "exception" THEN a
        ELSE IF ~Truthy(a.ret) THEN Result(PyNone, a.auth, a.reqs)
        ELSE DataRequest(a, "get-channel", NoName, dresp, PyDict, PyNone)

SourcesFieldOrNone(data) ==
    IF data.has_sources THEN PyList(data.sources) ELSE PyNone

\* data.get("sources", [])
SourcesField(data) ==
    IF data.has_sources THEN PyList(data.sources) ELSE PyList(<<>>)

get_ndi_sources(auth, lresp, dresp) ==
    LET a == _check_auth(auth, lresp)
    IN  IF a.ret.kind = "exception" THEN a
        ELSE IF ~Truthy(a.ret) THEN Result(PyNone, a.auth, a.reqs)
        ELSE DataRequest(a, "get-ndi-sources", NoName, dresp, SourcesField(dresp), PyNone)

set_channel(auth, source_name, lresp, dresp) ==
    LET a == _check_auth(auth, lresp)
    IN  IF a.ret.kind = "exception" THEN a
        ELSE IF ~Truthy(a.ret) THEN Result(PyBool(FALSE), a.auth, a.reqs)
        ELSE DataRequest(a, "set-channel", source_name, dresp, PyBool(TRUE), PyBool(FALSE))

\* ------------------------------------------------------------------ state
VARIABLES
    pc,              \* "import": the module is imported and its class used
                     \* directly; "start", "menu", "prompt", "exited": main()
    authenticated,   \* MagewellSwitcher.authenticated
    has_cached,      \* hasattr(switcher, "cached_sources")
    cached_sources,  \* switcher.cached_sources
    exit_code,       \* process exit status, -1 while running
    calls,           \* the session method calls made by the last step
    stdin,           \* the line read by the last step
    stdout,          \* what the last step printed
    fetched          \* the last get_ndi_sources answer with status 0 seen
                     \* by the menu loop

vars == <<pc, authenticated, has_cached, cached_sources, exit_code, calls,
          stdin, stdout, fetched>>

\* The record of one session method call: its name and argument,
\* self.authenticated before and after, the requests it sent, what it
\* returned.
Call(op, arg, before, r) ==
    [op |-> op, arg |-> arg, before |-> before, after |-> r.auth,
     reqs |-> r.reqs, ret |-> r.ret]

NotFetched == [has |-> FALSE, list |-> <<>>]

\* MagewellSwitcher.__init__ and the "if __name__ == '__main__'" guard.
Init ==
    /\ pc \in {"import", "start"}
    /\ authenticated = FALSE
    /\ has_cached = FALSE
    /\ cached_sources = <<>>
    /\ exit_code = -1
    /\ calls = <<>>
    /\ stdin = <<>>
    /\ stdout = <<>>
    /\ fetched = NotFetched

shell == <<pc, has_cached, cached_sources, exit_code, stdin, stdout, fetched>>

\* ------------------------------------------------------- console input
\* A line of input is a sequence of one-character strings.
DigitVal ==
    ("0" :> 0) @@ ("1" :> 1) @@ ("2" :> 2) @@ ("3" :> 3) @@ ("4" :> 4) @@
    ("5" :> 5) @@ ("6" :> 6) @@ ("7" :> 7) @@ ("8" :> 8) @@ ("9" :> 9)

Whitespace == {" ", "\t"}

RECURSIVE LStrip(_)
LStrip(s) == IF s # <<>> /\ Head(s) \in Whitespace THEN LStrip(Tail(s)) ELSE s

RECURSIVE RStrip(_)
RStrip(s) ==
    IF s # <<>> /\ s[Len(s)] \in Whitespace
    THEN RStrip(SubSeq(s, 1, Len(s) - 1)) ELSE s

\* str.strip()
Strip(s) == RStrip(LStrip(s))

RECURSIVE DigitsValue(_)
DigitsValue(s) ==
    IF s = <<>> THEN 0
    ELSE 10 * DigitsValue(SubSeq(s, 1, Len(s) - 1)) + DigitVal[s[Len(s)]]

\* int(text): surrounding whitespace, an optional sign, decimal digits;
\* anything else raises ValueError (ok = FALSE).
int(text) ==
    LET t == Strip(text)
        signed == t # <<>> /\ Head(t) \in {"+", "-"}
        digits == IF signed THEN Tail(t) ELSE t
    IN  IF digits = <<>> \/ \E i \in 1..Len(digits) : digits[i] \notin DOMAIN DigitVal
        THEN [ok |-> FALSE, val |-> 0]
        ELSE [ok |-> TRUE,
              val |-> IF signed /\ Head(t) = "-" THEN 0 - DigitsValue(digits)
                      ELSE DigitsValue(digits)]

\* Lines typed at "Enter option (1-4): ".
MenuLines ==
    {<<"1">>, <<"2">>, <<"3">>, <<"4">>, <<"5">>, <<"0">>, <<"x">>, <<>>,
     <<" ", "4", " ">>, <<"4", "4">>}

\* Lines typed at "Enter source number to select (or 0 to cancel): ".
PromptLines ==
    {<<"0">>, <<"1">>, <<"2">>, <<"3">>, <<"4">>, <<"5">>, <<"-", "1">>,
     <<"-", "2">>, <<"+", "1">>, <<" ", "2", " ">>, <<"1", "0">>, <<"0", "0">>,
     <<"a">>, <<"1", "a">>, <<"-">>, <<>>}

\* ------------------------------------------------------------- printing
\* display_ndi_sources: the lines it prints, a row being the source's name.
display_ndi_sources(sources) ==
    IF Len(sources) = 0 THEN <<"No NDI sources available.">>
    ELSE <<"Available NDI Sources:">> \o [i \in 1..Len(sources) |-> SourceName(sources[i])]

\* ------------------------------------- the class used by an importing caller
CallLogin ==
    /\ pc = "import"
    /\ \E resp \in PlainResponses :
         LET r == login(authenticated, resp, FALSE)
         IN  /\ authenticated' = r.auth
             /\ calls' = <<Call("login", NoName, authenticated, r)>>
    /\ UNCHANGED shell

CallGetCurrentChannel ==
    /\ pc = "import"
    /\ \E lresp \in PlainResponses, dresp \in PlainResponses :
         LET r == get_current_channel(authenticated, lresp, dresp)
         IN  /\ authenticated' = r.auth
             /\ calls' = <<Call("get_current_channel", NoName, authenticated, r)>>
    /\ UNCHANGED shell

CallGetNdiSources ==
    /\ pc = "import"
    /\ \E lresp \in PlainResponses, dresp \in SourcesResponses :
         LET r == get_ndi_sources(authenticated, lresp, dresp)
         IN  /\ authenticated' = r.auth
             /\ calls' = <<Call("get_ndi_sources", NoName, authenticated, r)>>
    /\ UNCHANGED shell

CallSetChannel ==
    /\ pc = "import"
    /\ \E lresp \in PlainResponses, dresp \in PlainResponses, source \in SourceDicts :
         LET r == set_channel(authenticated, SourceName(source), lresp, dresp)
         IN  /\ authenticated' = r.auth
             /\ calls' = <<Call("set_channel", SourceName(source), authenticated, r)>>
    /\ UNCHANGED shell

\* --------------------------------------------------------------- main()
Commands == {"current", "list", "set", "interactive", "none"}

\* Values of the "source" argument of the set subcommand.
SourceArgs == {"camA", "other"}

\* The process ends: sys.exit(code), the return of main(), or an exception
\* nothing caught (traceback, status 1).
Finish(code, out, cs, auth) ==
    /\ pc' = "exited"
    /\ exit_code' = code
    /\ stdout' = out
    /\ calls' = cs
    /\ authenticated' = auth
    /\ UNCHANGED <<has_cached, cached_sources, stdin, fetched>>

Crash(cs, auth) == Finish(1, <<"Traceback">>, cs, auth)

\* The "Process commands" chain of main(), after a successful login.
Dispatch(command, auth, lc) ==
    \/ /\ command = "current"
       /\ \E lresp \in PlainResponses, dresp \in PlainResponses :
            LET r == get_current_channel(auth, lresp, dresp)
                cs == <<lc, Call("get_current_channel", NoName, auth, r)>>
            IN  IF r.ret.kind = "exception" THEN Crash(cs, r.auth)
                ELSE IF Truthy(r.ret)
                     THEN Finish(0, <<"Current Channel:">>, cs, r.auth)
                     ELSE Finish(0, <<"Failed to retrieve current channel.">>, cs, r.auth)
    \/ /\ command = "list"
       /\ \E lresp \in PlainResponses, dresp \in SourcesResponses :
            LET r == get_ndi_sources(auth, lresp, dresp)
                cs == <<lc, Call("get_ndi_sources", NoName, auth, r)>>
            IN  IF r.ret.kind = "exception" THEN Crash(cs, r.auth)
                ELSE IF Truthy(r.ret)
                     THEN Finish(0, display_ndi_sources(r.ret.list), cs, r.auth)
                     ELSE Finish(0, <<"Failed to retrieve NDI sources.">>, cs, r.auth)
    \/ /\ command = "set"
       /\ \E source \in SourceArgs, lresp \in PlainResponses, dresp \in PlainResponses :
            LET r == set_channel(auth, source, lresp, dresp)
                cs == <<lc, Call("set_channel", source, auth, r)>>
            IN  IF r.ret.kind = "exception" THEN Crash(cs, r.auth)
                ELSE IF Truthy(r.ret)
                     THEN Finish(0, <<"Successfully switched to:", source>>, cs, r.auth)
                     ELSE Finish(0, <<"Failed to switch to:", source>>, cs, r.auth)
    \/ /\ command = "interactive"
       /\ pc' = "menu"
       /\ stdout' = <<"Magewell Switcher Interactive Mode">>
       /\ calls' = <<lc>>
       /\ authenticated' = auth
       /\ UNCHANGED <<has_cached, cached_sources, exit_code, stdin, fetched>>
    \/ /\ command = "none"
       /\ Finish(0, <<"usage">>, <<lc>>, auth)

\* main(), for arguments that parse: the eager login, then the subcommand.
\* The interactive subcommand runs on in MenuChoice and SourcePrompt.
main ==
    /\ pc = "start"
    /\ \E command \in Commands, resp \in PlainResponses :
         LET l == login(authenticated, resp, FALSE)
             lc == Call("login", NoName, authenticated, l)
         IN  IF l.ret.kind = "exception" THEN Crash(<<lc>>, l.auth)
             ELSE IF ~Truthy(l.ret)
                  THEN Finish(1, <<"Failed to authenticate with switcher">>, <<lc>>, l.auth)
                  ELSE Dispatch(command, l.auth, lc)

\* ------------------------------------------------ run_interactive_mode()
\* The loop goes back to the "Enter option" prompt.
ToMenu(out, cs, auth) ==
    /\ pc' = "menu"
    /\ stdout' = out
    /\ calls' = cs
    /\ authenticated' = auth
    /\ UNCHANGED exit_code

ValidIndexExclusive(idx, n) == 1 <= idx /\ idx < n

\* 1 <= idx <= len(switcher.cached_sources)
ValidIndex(idx, n) == 1 <= idx /\ idx <= n

\* One pass of the while loop from the "Enter option" prompt: up to the next
\* prompt the loop blocks on, or to its break.
MenuChoice ==
    /\ pc = "menu"
    /\ \E line \in MenuLines :
         LET choice == Strip(line)
         IN  /\ stdin' = line
             /\ \/ /\ choice = <<"1">>
                   /\ \E lresp \in PlainResponses, dresp \in PlainResponses :
                        LET r == get_current_channel(authenticated, lresp, dresp)
                            cs == <<Call("get_current_channel", NoName, authenticated, r)>>
                        IN  IF r.ret.kind = "exception"
                            THEN /\ pc' = "exited" /\ exit_code' = 1
                                 /\ stdout' = <<"Traceback">> /\ calls' = cs
                                 /\ authenticated' = r.auth
                            ELSE IF Truthy(r.ret)
                                 THEN ToMenu(<<"Current Channel:">>, cs, r.auth)
                                 ELSE ToMenu(<<"Failed to retrieve current channel.">>, cs, r.auth)
                   /\ UNCHANGED <<has_cached, cached_sources, fetched>>
                \/ /\ choice = <<"2">>
                   /\ \E lresp \in PlainResponses, dresp \in SourcesResponses :
                        LET r == get_ndi_sources(authenticated, lresp, dresp)
                            cs == <<Call("get_ndi_sources", NoName, authenticated, r)>>
                        IN  /\ fetched' = IF r.ret.kind = "list"
                                          THEN [has |-> TRUE, list |-> r.ret.list]
                                          ELSE fetched
                            /\ IF r.ret.kind = "exception"
                               THEN /\ pc' = "exited" /\ exit_code' = 1
                                    /\ stdout' = <<"Traceback">> /\ calls' = cs
                                    /\ authenticated' = r.auth
                                    /\ UNCHANGED <<has_cached, cached_sources>>
                               ELSE IF Truthy(r.ret)
                                    THEN /\ ToMenu(display_ndi_sources(r.ret.list), cs, r.auth)
                                         /\ has_cached' = TRUE
                                         /\ cached_sources' = r.ret.list
                                    ELSE /\ ToMenu(<<"Failed to retrieve NDI sources.">>, cs, r.auth)
                                         /\ UNCHANGED <<has_cached, cached_sources>>
                \/ /\ choice = <<"3">>
                   /\ IF ~has_cached \/ Len(cached_sources) = 0
                      THEN \E lresp \in PlainResponses, dresp \in SourcesResponses :
                        LET r == get_ndi_sources(authenticated, lresp, dresp)
                            cs == <<Call("get_ndi_sources", NoName, authenticated, r)>>
                        IN  /\ fetched' = IF r.ret.kind = "list"
                                          THEN [has |-> TRUE, list |-> r.ret.list]
                                          ELSE fetched
                            /\ IF r.ret.kind = "exception"
                               THEN /\ pc' = "exited" /\ exit_code' = 1
                                    /\ stdout' = <<"Traceback">> /\ calls' = cs
                                    /\ authenticated' = r.auth
                                    /\ UNCHANGED <<has_cached, cached_sources>>
                               ELSE IF Truthy(r.ret)
                                    THEN /\ pc' = "prompt"
                                         /\ stdout' = <<"Fetching available sources first...">>
                                                      \o display_ndi_sources(r.ret.list)
                                         /\ calls' = cs
                                         /\ authenticated' = r.auth
                                         /\ has_cached' = TRUE
                                         /\ cached_sources' = r.ret.list
                                         /\ UNCHANGED exit_code
                                    ELSE /\ ToMenu(<<"Fetching available sources first...",
                                                     "Failed to retrieve sources. Please try again.">>,
                                                   cs, r.auth)
                                         /\ UNCHANGED <<has_cached, cached_sources>>
                      ELSE /\ pc' = "prompt"
                           /\ stdout' = <<>>
                           /\ calls' = <<>>
                           /\ UNCHANGED <<authenticated, has_cached, cached_sources,
                                          exit_code, fetched>>
                \/ /\ choice = <<"4">>
                   /\ pc' = "exited"
                   /\ exit_code' = 0
                   /\ stdout' = <<"Exiting...">>
                   /\ calls' = <<>>
                   /\ UNCHANGED <<authenticated, has_cached, cached_sources, fetched>>
                \/ /\ choice \notin {<<"1">>, <<"2">>, <<"3">>, <<"4">>}
                   /\ ToMenu(<<"Invalid option. Please try again.">>, <<>>, authenticated)
                   /\ UNCHANGED <<has_cached, cached_sources, fetched>>

\* The rest of the pass for choice "3": the source number is read and acted on.
SourcePrompt ==
    /\ pc = "prompt"
    /\ \E line \in PromptLines :
         LET idx == int(line)
         IN  /\ stdin' = line
             /\ UNCHANGED <<has_cached, cached_sources, fetched>>
             /\ IF ~idx.ok
                THEN ToMenu(<<"Please enter a valid number.">>, <<>>, authenticated)
                ELSE IF idx.val = 0
                THEN ToMenu(<<>>, <<>>, authenticated)
                ELSE IF ValidIndex(idx.val, Len(cached_sources))
                THEN \E lresp \in PlainResponses, dresp \in PlainResponses :
                       LET source_name == SourceName(cached_sources[idx.val])
                           r == set_channel(authenticated, source_name, lresp, dresp)
                           cs == <<Call("set_channel", source_name, authenticated, r)>>
                       IN  IF r.ret.kind = "exception"
                           THEN /\ pc' = "exited" /\ exit_code' = 1
                                /\ stdout' = <<"Traceback">> /\ calls' = cs
                                /\ authenticated' = r.auth
                           ELSE IF Truthy(r.ret)
                                THEN ToMenu(<<"Successfully switched to:", source_name>>, cs, r.auth)
                                ELSE ToMenu(<<"Failed to switch to:", source_name>>, cs, r.auth)
                ELSE ToMenu(<<"Invalid source number.">>, <<>>, authenticated)

Next ==
    \/ CallLogin
    \/ CallGetCurrentChannel
    \/ CallGetNdiSources
    \/ CallSetChannel
    \/ main
    \/ MenuChoice
    \/ SourcePrompt

Spec == Init /\ [][Next]_vars

\* ------------------------------------------------------------ properties
\* The request was answered by a JSON object whose status is 0.
Answered0(r) == r.resp.kind = "object" /\ r.resp.has_status /\ r.resp.status = 0

Reqs(c) == {c.reqs[j] : j \in 1..Len(c.reqs)}

AllCalls == {calls[i] : i \in 1..Len(calls)}

DataOps == {"get_current_channel", "get_ndi_sources", "set_channel"}

\* C1: login, get_current_channel, get_ndi_sources and set_channel always
\* return a value and never raise, whatever the device answers; when a
\* request of the call meets a transport error, malformed or non-object JSON
\* or a status other than 0 (also the login made inside a data operation),
\* login and set_channel return False and the other two return None.
C1_NeverRaises ==
    \A c \in AllCalls :
        /\ c.ret.kind # "exception"
        /\ c.op \in {"login", "set_channel"} => c.ret.kind = "bool"
        /\ c.op \in {"get_current_channel", "get_ndi_sources"}
              => c.ret.kind \in {"None", "dict", "list"}
        /\ (\E r \in Reqs(c) : ~Answered0(r))
              => c.ret = IF c.op \in {"login", "set_channel"} THEN PyBool(FALSE) ELSE PyNone

C1_Witness ==
    \E c \in AllCalls :
        /\ c.op = "get_ndi_sources"
        /\ ~c.before
        /\ Len(c.reqs) = 1
        /\ c.reqs[1].method = "login"
        /\ c.reqs[1].resp.kind = "non_object"
        /\ c.ret = PyNone

\* C2: a get-channel, get-ndi-sources or set-channel request is sent only
\* while authenticated is true; a data operation entered with authenticated
\* false sends a login request first, and when that login fails it returns
\* None/False without sending its data request.
C2_DataOnlyWhenAuthenticated ==
    \A c \in AllCalls :
        /\ \A r \in Reqs(c) : r.method # "login" => r.auth
        /\ (c.op \in DataOps /\ ~c.before)
              => /\ Len(c.reqs) >= 1
                 /\ c.reqs[1].method = "login"
                 /\ ~Answered0(c.reqs[1])
                       => /\ Len(c.reqs) = 1
                          /\ c.ret \in {PyNone, PyBool(FALSE)}

C2_Witness ==
    \E c \in AllCalls :
        /\ c.op = "set_channel"
        /\ ~c.before
        /\ Len(c.reqs) = 1
        /\ c.reqs[1].method = "login"
        /\ c.reqs[1].resp.kind = "object"
        /\ c.reqs[1].resp.status = 1
        /\ c.ret = PyBool(FALSE)

\* C3: a login request sent through _check_auth is sent only while
\* authenticated is false, so none is sent once it is true; after the eager
\* login of main() has succeeded no data operation of the run sends a login
\* request.
C3_NoRedundantLogin ==
    /\ \A c \in AllCalls : \A r \in Reqs(c) :
          (r.method = "login" /\ r.via) => ~r.auth
    /\ pc # "import"
          => \A c \in AllCalls : c.op \in DataOps
                => /\ c.before
                   /\ \A r \in Reqs(c) : r.method # "login"

C3_Witness ==
    /\ pc = "menu"
    /\ stdin = <<"1">>
    /\ Len(calls) = 1
    /\ calls[1].op = "get_current_channel"
    /\ calls[1].before
    /\ Len(calls[1].reqs) = 1
    /\ calls[1].reqs[1].method = "get-channel"

\* The eager login of main() is the only call of login in a run of main().
EagerLoginFailed ==
    /\ pc # "import"
    /\ calls # <<>>
    /\ calls[1].op = "login"
    /\ calls[1].ret # PyBool(TRUE)

Typed ==
    [line \in PromptLines |->
        CASE line = <<"0">> -> [num |-> TRUE, val |-> 0]
          [] line = <<"0", "0">> -> [num |-> TRUE, val |-> 0]
          [] line = <<"1">> -> [num |-> TRUE, val |-> 1]
          [] line = <<"+", "1">> -> [num |-> TRUE, val |-> 1]
          [] line = <<"2">> -> [num |-> TRUE, val |-> 2]
          [] line = <<" ", "2", " ">> -> [num |-> TRUE, val |-> 2]
          [] line = <<"3">> -> [num |-> TRUE, val |-> 3]
          [] line = <<"4">> -> [num |-> TRUE, val |-> 4]
          [] line = <<"5">> -> [num |-> TRUE, val |-> 5]
          [] line = <<"1", "0">> -> [num |-> TRUE, val |-> 10]
          [] line = <<"-", "1">> -> [num |-> TRUE, val |-> 0 - 1]
          [] line = <<"-", "2">> -> [num |-> TRUE, val |-> 0 - 2]
          [] OTHER -> [num |-> FALSE, val |-> 0]]

SetChannelRequests(cs) ==
    {<<i, j>> \in (1..Len(cs)) \X (1..2) :
        j <= Len(cs[i].reqs) /\ cs[i].reqs[j].method = "set-channel"}

\* C5: at the source-number prompt with n cached sources: 0 sends nothing
\* and returns to the menu; a number outside 1..n or text that is no number
\* sends nothing, prints an error and returns to the menu; k in 1..n calls
\* set_channel exactly once with the name of cached source k-1 (0-based).
C5_SwitchSelection ==
    [][pc = "prompt" =>
        LET t == Typed[stdin']
            n == Len(cached_sources)
        IN  IF t.num /\ 1 <= t.val /\ t.val <= n
            THEN /\ Len(calls') = 1
                 /\ calls'[1].op = "set_channel"
                 /\ calls'[1].arg = cached_sources[t.val].ndi_name
                 /\ Cardinality(SetChannelRequests(calls')) = 1
                 /\ \A r \in Reqs(calls'[1]) :
                       r.method = "set-channel" => r.name = cached_sources[t.val].ndi_name
                 /\ pc' = "menu"
            ELSE /\ calls' = <<>>
                 /\ pc' = "menu"
                 /\ IF t.num /\ t.val = 0 THEN stdout' = <<>>
                    ELSE IF t.num THEN stdout' = <<"Invalid source number.">>
                    ELSE stdout' = <<"Please enter a valid number.">>
    ]_vars

C5_Witness ==
    /\ pc = "menu"
    /\ stdin = <<"2">>
    /\ Len(cached_sources) = 2
    /\ cached_sources[1] # cached_sources[2]
    /\ Len(calls) = 1
    /\ calls[1].op = "set_channel"
    /\ calls[1].arg = cached_sources[2].ndi_name
    /\ calls[1].ret = PyBool(TRUE)

\* The lines that are the exit choice once stripped.
ExitLines == {<<"4">>, <<" ", "4", " ">>}

Cache == IF has_cached THEN cached_sources ELSE <<>>

\* C7: in the menu loop the cached list equals the sequence returned by the
\* most recent get_ndi_sources call of the list or switch option that the
\* device answered with status 0, whatever its length.
C7_CacheIsLastFetch ==
    (pc \in {"menu", "prompt"} /\ fetched.has) => Cache = fetched.list

\* C8: get_ndi_sources returns None exactly when a request of the call (the
\* login or the data request) fails; otherwise it returns the "sources"
\* member of the answer in the device's order, or the empty list when the
\* answer has no such member.
C8_SourcesResult ==
    \A c \in AllCalls : c.op = "get_ndi_sources" =>
        LET last == c.reqs[Len(c.reqs)]
        IN  /\ Len(c.reqs) >= 1
            /\ c.ret = PyNone <=> \E r \in Reqs(c) : ~Answered0(r)
            /\ (\A r \in Reqs(c) : Answered0(r))
                  => /\ last.method = "get-ndi-sources"
                     /\ c.ret.kind = "list"
                     /\ c.ret.list = IF last.resp.has_sources
                                     THEN last.resp.sources ELSE <<>>

C8_Witness ==
    \E c \in AllCalls :
        /\ c.op = "get_ndi_sources"
        /\ c.reqs[Len(c.reqs)].method = "get-ndi-sources"
        /\ Answered0(c.reqs[Len(c.reqs)])
        /\ ~c.reqs[Len(c.reqs)].resp.has_sources
        /\ c.ret = PyList(<<>>)

\* C9: no request is retried: a call of login sends at most one login
\* request, a data operation at most one login request followed by at most
\* one data request, and a failed request is the last one of its call.
C9_NoRetry ==
    \A c \in AllCalls :
        /\ Len(c.reqs) <= 2
        /\ c.op = "login" => Len(c.reqs) <= 1
        /\ Cardinality({j \in 1..Len(c.reqs) : c.reqs[j].method = "login"}) <= 1
        /\ Cardinality({j \in 1..Len(c.reqs) : c.reqs[j].method # "login"}) <= 1
        /\ \A j \in 1..Len(c.reqs) :
              /\ (c.reqs[j].method = "login" /\ c.op # "login") => j = 1
              /\ ~Answered0(c.reqs[j]) => j = Len(c.reqs)

C9_Witness ==
    \E c \in AllCalls :
        /\ c.op = "get_current_channel"
        /\ Len(c.reqs) = 2
        /\ Answered0(c.reqs[1])
        /\ c.reqs[2].resp.kind = "bad_json"
        /\ c.ret = PyNone

LoginAnswered0(cs) ==
    \E i \in 1..Len(cs) : \E r \in Reqs(cs[i]) : r.method = "login" /\ Answered0(r)

\* C10: authenticated starts false, becomes true exactly when a login
\* request is answered with status 0 and is changed by nothing else: a
\* failed login and every outcome of the data requests leave it as it is, so
\* it never goes back to false.
C10_AuthenticatedMonotonic ==
    /\ authenticated = FALSE
    /\ [][authenticated' = (authenticated \/ LoginAnswered0(calls'))]_vars
    /\ [](\A c \in AllCalls : c.after = (c.before \/ LoginAnswered0(<<c>>)))

C10_Witness ==
    /\ authenticated
    /\ \E c \in AllCalls :
        /\ c.op = "get_current_channel"
        /\ c.before
        /\ c.reqs[1].resp.kind = "transport_error"
        /\ c.ret = PyNone
====
